---- MODULE Spec2Model ----
(***************************************************************************)
(* A model of redust (yunz-dev/redis-but-brown): the RESP frame parser of  *)
(* src/resp.rs, the command handlers of src/commands.rs, the shared        *)
(* Database of src/db.rs and the connection, subscriber and expirer tasks  *)
(* of src/main.rs.                                                         *)
(*                                                                         *)
(* A byte is a one-character string; "\r" and "\n" are CR and LF and       *)
(* "xFF" is the byte 0xFF, which never occurs in valid UTF-8.  A buffer is *)
(* a sequence of bytes.                                                    *)
(***************************************************************************)
EXTENDS Integers, Sequences, FiniteSets, TLC

\* ------------------------------------------------------------------------
\* Bounds of the model
\* ------------------------------------------------------------------------

\* capacity of a subscriber queue: mpsc::channel(100) in main.rs:33, scaled
QueueCapacity == 2
\* the monotonic clock runs from 0 to MaxTime
MaxTime == 2
\* PUBLISH commands executed in one behaviour
MaxPublishes == 4
\* PUBLISH commands executed in one behaviour of Spec
MaxKeyPublishes == 1
\* frames a client sends on the byte-level connection
MaxFrames == 2
\* no frame of the model is longer than MaxEncoding bytes
MaxEncoding == 40
\* the bytes in flight on the byte-level connection
MaxStream == MaxFrames * MaxEncoding

\* ------------------------------------------------------------------------
\* resp.rs: Value and ParseError
\* ------------------------------------------------------------------------

None == [t |-> "None"]

SimpleString(s) == [t |-> "SimpleString", s |-> s]
Error(s) == [t |-> "Error", s |-> s]
Integer(n) == [t |-> "Integer", n |-> n]
BulkString(b) == [t |-> "BulkString", b |-> b]
Array(a) == [t |-> "Array", a |-> a]
Null == [t |-> "Null"]

CR == "\r"
LF == "\n"
CRLF == <<CR, LF>>

Digits == <<"0", "1", "2", "3", "4", "5", "6", "7", "8", "9">>

IsDigit(b) == \E i \in 1..10 : Digits[i] = b

DigitVal(b) == (CHOOSE i \in 1..10 : Digits[i] = b) - 1

\* the value of a non-empty sequence of decimal digits
RECURSIVE DigitsVal(_)
DigitsVal(ds) ==
    IF Len(ds) = 0 THEN 0
    ELSE 10 * DigitsVal(SubSeq(ds, 1, Len(ds) - 1)) + DigitVal(ds[Len(ds)])

AllDigits(ds) == Len(ds) > 0 /\ \A i \in 1..Len(ds) : IsDigit(ds[i])

\* str::parse::<usize>() and ::<u64>(): an optional '+', then digits
\* (the lines of the model are too short to overflow)
ParseUnsigned(line) ==
    LET body == IF Len(line) > 0 /\ line[1] = "+" THEN Tail(line) ELSE line
    IN  IF AllDigits(body) THEN [ok |-> TRUE, n |-> DigitsVal(body)]
        ELSE [ok |-> FALSE, n |-> 0]

\* str::parse::<i64>(): an optional '+' or '-', then digits
ParseSigned(line) ==
    LET signed == Len(line) > 0 /\ line[1] \in {"+", "-"}
        body == IF signed THEN Tail(line) ELSE line
    IN  IF AllDigits(body)
        THEN [ok |-> TRUE,
              n |-> IF signed /\ line[1] = "-" THEN 0 - DigitsVal(body)
                    ELSE DigitsVal(body)]
        ELSE [ok |-> FALSE, n |-> 0]

\* String::from_utf8 / str::from_utf8 on the bytes of the model
Utf8Ok(bs) == \A i \in 1..Len(bs) : bs[i] # "xFF"

Drop(buf, n) == SubSeq(buf, n + 1, Len(buf))

\* the outcome of a parse step: res is "Ok", "Incomplete" or "Invalid", val
\* the parsed value (or line) and rest the buffer the call leaves behind
Outcome(res, val, rest) == [res |-> res, val |-> val, rest |-> rest]

\* read_line: consumes bytes up to and including the first CR and the byte
\* after it; every byte it has read is gone from the buffer on any outcome
read_line(buf) ==
    LET crs == {i \in 1..Len(buf) : buf[i] = CR}
    IN  IF crs = {} THEN Outcome("Incomplete", <<>>, <<>>)
        ELSE LET i == CHOOSE j \in crs : \A k \in crs : j <= k
             IN  IF i = Len(buf) THEN Outcome("Invalid", <<>>, <<>>)
                 ELSE IF buf[i + 1] # LF
                      THEN Outcome("Invalid", <<>>, Drop(buf, i + 1))
                 ELSE IF ~Utf8Ok(SubSeq(buf, 1, i - 1))
                      THEN Outcome("Invalid", <<>>, Drop(buf, i + 1))
                 ELSE Outcome("Ok", SubSeq(buf, 1, i - 1), Drop(buf, i + 1))

parse_simple_string(buf) ==
    LET l == read_line(buf)
    IN  IF l.res # "Ok" THEN l ELSE Outcome("Ok", SimpleString(l.val), l.rest)

parse_error(buf) ==
    LET l == read_line(buf)
    IN  IF l.res # "Ok" THEN l ELSE Outcome("Ok", Error(l.val), l.rest)

parse_integer(buf) ==
    LET l == read_line(buf)
        p == ParseSigned(l.val)
    IN  IF l.res # "Ok" THEN l
        ELSE IF ~p.ok THEN Outcome("Invalid", <<>>, l.rest)
        ELSE Outcome("Ok", Integer(p.n), l.rest)

\* parse_bulk_string without the advance(2) past the bytes after the payload
parse_bulk_string_keeps_crlf(buf) ==
    LET l == read_line(buf)
        p == ParseUnsigned(l.val)
    IN  IF l.res # "Ok" THEN l
        ELSE IF l.val = <<"-", "1">> THEN Outcome("Ok", Null, l.rest)
        ELSE IF ~p.ok THEN Outcome("Invalid", <<>>, l.rest)
        ELSE IF Len(l.rest) < p.n + 2 THEN Outcome("Incomplete", <<>>, l.rest)
        ELSE Outcome("Ok", BulkString(SubSeq(l.rest, 1, p.n)),
                     Drop(l.rest, p.n))

\* parse_bulk_string: the length line is consumed before the payload is
\* known to be there; the two bytes after the payload are skipped unread
parse_bulk_string(buf) ==
    LET l == read_line(buf)
        p == ParseUnsigned(l.val)
    IN  IF l.res # "Ok" THEN l
        ELSE IF l.val = <<"-", "1">> THEN Outcome("Ok", Null, l.rest)
        ELSE IF ~p.ok THEN Outcome("Invalid", <<>>, l.rest)
        ELSE IF Len(l.rest) < p.n + 2 THEN Outcome("Incomplete", <<>>, l.rest)
        ELSE Outcome("Ok", BulkString(SubSeq(l.rest, 1, p.n)),
                     Drop(l.rest, p.n + 2))

RECURSIVE parse_value(_)
RECURSIVE parse_elements(_, _, _)

\* the loop of parse_array: n more elements to parse onto acc
parse_elements(buf, n, acc) ==
    IF n = 0 THEN Outcome("Ok", Array(acc), buf)
    ELSE LET e == parse_value(buf)
         IN  IF e.res # "Ok" THEN e
             ELSE parse_elements(e.rest, n - 1, Append(acc, e.val))

parse_array(buf) ==
    LET l == read_line(buf)
        p == ParseUnsigned(l.val)
    IN  IF l.res # "Ok" THEN l
        ELSE IF l.val = <<"-", "1">> THEN Outcome("Ok", Null, l.rest)
        ELSE IF ~p.ok THEN Outcome("Invalid", <<>>, l.rest)
        ELSE parse_elements(l.rest, p.n, <<>>)

parse_value(buf) ==
    IF Len(buf) = 0 THEN Outcome("Incomplete", <<>>, buf)
    ELSE LET b == Head(buf)
             rest == Tail(buf)
         IN  CASE b = "+" -> parse_simple_string(rest)
               [] b = "-" -> parse_error(rest)
               [] b = ":" -> parse_integer(rest)
               [] b = "$" -> parse_bulk_string(rest)
               [] b = "*" -> parse_array(rest)
               [] OTHER -> Outcome("Invalid", <<>>, rest)

\* ------------------------------------------------------------------------
\* resp.rs: serialize_value (imported by main.rs:7; its body is not among
\* the sources, so it follows the encoder contract and the wire grammar)
\* ------------------------------------------------------------------------

RECURSIVE NatToDecimal(_)
NatToDecimal(n) ==
    IF n < 10 THEN <<Digits[n + 1]>>
    ELSE NatToDecimal(n \div 10) \o <<Digits[(n % 10) + 1]>>

ToDecimal(n) == IF n < 0 THEN <<"-">> \o NatToDecimal(0 - n) ELSE NatToDecimal(n)

RECURSIVE serialize_value(_)
RECURSIVE serialize_elements(_)

serialize_elements(a) ==
    IF Len(a) = 0 THEN <<>>
    ELSE serialize_value(Head(a)) \o serialize_elements(Tail(a))

serialize_value(v) ==
    CASE v.t = "SimpleString" -> <<"+">> \o v.s \o CRLF
      [] v.t = "Error" -> <<"-">> \o v.s \o CRLF
      [] v.t = "Integer" -> <<":">> \o ToDecimal(v.n) \o CRLF
      [] v.t = "BulkString" -> <<"$">> \o ToDecimal(Len(v.b)) \o CRLF \o v.b \o CRLF
      [] v.t = "Array" -> <<"*">> \o ToDecimal(Len(v.a)) \o CRLF \o serialize_elements(v.a)
      [] v.t = "Null" -> <<"$", "-", "1">> \o CRLF

\* ------------------------------------------------------------------------
\* The inputs of the model
\* ------------------------------------------------------------------------

\* the byte-level connection, whose socket carries arbitrary fragments
ByteConn == "c0"
\* the connections whose requests arrive one whole frame per read
FrameConns == {"c1", "c2", "c3"}
Conns == FrameConns \cup {ByteConn}

PING == <<"P", "I", "N", "G">>
SET == <<"S", "E", "T">>
GET == <<"G", "E", "T">>
DEL == <<"D", "E", "L">>
SUBSCRIBE == <<"S", "U", "B", "S", "C", "R", "I", "B", "E">>
PUBLISH == <<"P", "U", "B", "L", "I", "S", "H">>
PONG == <<"P", "O", "N", "G">>
OK == <<"O", "K">>
EX == <<"E", "X">>
SUBSCRIBED == <<"s", "u", "b", "s", "c", "r", "i", "b", "e">>
MESSAGE == <<"m", "e", "s", "s", "a", "g", "e">>

Bulk(b) == BulkString(b)

Keys == {<<"k">>}
Payloads == {<<"v">>, <<"w">>}
Channels == {<<"a">>, <<"b">>}
Messages == {<<"m">>, <<"n">>}
\* the seconds argument of SET .. EX: 0, 1 and one that does not parse
Seconds == {<<"0">>, <<"1">>, <<"x">>}

\* The request arrays the clients of FrameConns send where the keyspace is
\* under study: c1 writes, reads and deletes the key and publishes, c2 reads
\* and deletes it and works on another key, c3 subscribes.
KeyRequests ==
    [c \in FrameConns |->
        CASE c = "c1" ->
               {<<Bulk(SET), Bulk(k), Bulk(v)>> : k \in Keys, v \in Payloads}
               \cup {<<Bulk(SET), Bulk(k), Bulk(<<"v">>), Bulk(EX), Bulk(s)>> :
                        k \in Keys, s \in Seconds}
               \cup {<<Bulk(GET), Bulk(k)>> : k \in Keys}
               \cup {<<Bulk(DEL), Bulk(k)>> : k \in Keys}
          [] c = "c2" ->
               {<<Bulk(<<"g", "e", "t">>), Bulk(k)>> : k \in Keys}
               \cup {<<Bulk(DEL), Bulk(k)>> : k \in Keys}
               \cup {<<Bulk(SET), Bulk(<<"j">>), Bulk(<<"v">>)>>}
          [] OTHER ->
               {<<Bulk(SUBSCRIBE), Bulk(<<"a">>)>>}]

\* the PUBLISH that c1 sends there
KeyPublishRequest == <<Bulk(PUBLISH), Bulk(<<"a">>), Bulk(<<"m">>)>>

\* The request arrays where the channels are under study: c1 publishes, c2
\* and c3 subscribe.
ChannelRequests ==
    [c \in FrameConns |->
        CASE c = "c1" ->
               {<<Bulk(PUBLISH), Bulk(<<"a">>), Bulk(m)>> : m \in Messages}
               \cup {<<Bulk(PUBLISH), Bulk(<<"b">>), Bulk(<<"m">>)>>}
          [] c = "c2" ->
               {<<Bulk(SUBSCRIBE), Bulk(<<"a">>)>>}
          [] OTHER ->
               {<<Bulk(SUBSCRIBE), Bulk(ch)>> : ch \in Channels}]

\* what parse_value makes of a whole request frame in an empty buffer
Arrival(a) == parse_value(serialize_value(Array(a)))

KeyArrivals == [c \in FrameConns |-> {Arrival(a) : a \in KeyRequests[c]}]

ChannelArrivals ==
    [c \in FrameConns |-> {Arrival(a) : a \in ChannelRequests[c]}]

\* ------------------------------------------------------------------------
\* The state
\* ------------------------------------------------------------------------

VARIABLES
    data,       \* Database.data: key -> DbValue
    channels,   \* Database.channels: channel -> the senders on its list
    queue,      \* per subscriber connection: the messages in its mpsc queue
    rx,         \* per connection: "none", "open" (receiver held), "dropped"
    pc,         \* per connection: where its task stands
    pending,    \* per connection: the key, value, expiry of a SET at the lock
    chan,       \* per connection: the channel of its subscriber mode
    buf,        \* per connection: the receive buffer of handle_connection
    net,        \* ByteConn: bytes the client has sent, not yet read
    out,        \* per connection: the frames written to its socket
    now,        \* the monotonic clock (Instant::now())
    last,       \* the last command executed, its result, and whether it
                \* found an entry under its key
    sent,       \* ByteConn: the top-level frames the client has sent
    delivered,  \* ByteConn: the arrays handed to handle_command
    npub,       \* number of PUBLISH commands executed
    written,    \* per key: the last SET (value, expiry) or DEL (count)
    enq,        \* per connection: the messages enqueued to its queue
    cv, cbuf, cphase, cfed, cparts, cres, cbefore   \* the codec on its own

engineVars == <<data, channels, queue, rx, pc, pending, chan, out, now, last,
                npub, written, enq>>
connVars == <<buf, net, sent, delivered>>
codecVars == <<cv, cbuf, cphase, cfed, cparts, cres, cbefore>>
vars == <<engineVars, connVars, codecVars>>

Some(x) == [t |-> "Some", v |-> x]

\* db.rs: DbValue; DbValue::new(value) has no expiry
DbValue(d, e) == [data |-> d, expiry |-> e]

\* is_expired with the deadline instant itself counted as past
is_expired_at_deadline(val, t) == val.expiry.t = "Some" /\ t >= val.expiry.v

\* db.rs: DbValue::is_expired at the instant t
is_expired(val, t) == val.expiry.t = "Some" /\ t > val.expiry.v

\* commands.rs: CommandResult
ResultValue(v) == [t |-> "Value", v |-> v]
ResultSubscribe(c) == [t |-> "Subscribe", channel |-> c]

extract_string(value) ==
    IF value.t = "BulkString" /\ Utf8Ok(value.b) THEN Some(value.b) ELSE None

extract_bytes(value) ==
    IF value.t = "BulkString" THEN Some(value.b) ELSE None

\* str::to_uppercase on the letters of the model
Upper(b) ==
    CASE b = "g" -> "G" [] b = "e" -> "E" [] b = "t" -> "T" [] OTHER -> b

to_uppercase(s) == [i \in 1..Len(s) |-> Upper(s[i])]

\* ------------------------------------------------------------------------
\* commands.rs: the handlers.  A handler yields an Effect: its result and
\* the Database and queues as it leaves them.
\* ------------------------------------------------------------------------

Effect(result, d, ch, q) ==
    [result |-> result, data |-> d, channels |-> ch, queue |-> q]

NoEffect(result) == Effect(result, data, channels, queue)

\* handle_set up to db.write().await: the key, the value and the expiry,
\* computed at the instant t before the lock is taken
handle_set(args, t) ==
    IF Len(args) < 2 THEN None
    ELSE LET key == extract_string(args[1])
             value == extract_bytes(args[2])
             hasEx == /\ Len(args) >= 4
                      /\ args[3].t = "BulkString"
                      /\ args[3].b = EX
                      /\ args[4].t = "BulkString"
             secs == ParseUnsigned(args[4].b)
         IN  IF key.t = "None" \/ value.t = "None" THEN None
             ELSE IF hasEx /\ ~Utf8Ok(args[4].b) THEN None
             ELSE [t |-> "AwaitLock", key |-> key.v, value |-> value.v,
                   expiry |-> IF hasEx /\ secs.ok THEN Some(t + secs.n)
                              ELSE None]

\* handle_get without the removal of the expired entry
handle_get_keeps_expired(args, t) ==
    IF Len(args) # 1 THEN NoEffect(None)
    ELSE LET key == extract_string(args[1])
         IN  IF key.t = "None" THEN NoEffect(None)
             ELSE IF key.v \in DOMAIN data
             THEN IF is_expired(data[key.v], t)
                  THEN NoEffect(Null)
                  ELSE NoEffect(BulkString(data[key.v].data))
             ELSE NoEffect(Null)

handle_get(args, t) ==
    IF Len(args) # 1 THEN NoEffect(None)
    ELSE LET key == extract_string(args[1])
         IN  IF key.t = "None" THEN NoEffect(None)
             ELSE IF key.v \in DOMAIN data
             THEN IF is_expired(data[key.v], t)
                  THEN Effect(Null,
                              [k \in DOMAIN data \ {key.v} |-> data[k]],
                              channels, queue)
                  ELSE NoEffect(BulkString(data[key.v].data))
             ELSE NoEffect(Null)

\* handle_del that counts the entry and leaves it in place
handle_del_keeps_entry(args) ==
    IF Len(args) # 1 THEN NoEffect(None)
    ELSE LET key == extract_string(args[1])
         IN  IF key.t = "None" THEN NoEffect(None)
             ELSE NoEffect(Integer(IF key.v \in DOMAIN data THEN 1 ELSE 0))

handle_del(args) ==
    IF Len(args) # 1 THEN NoEffect(None)
    ELSE LET key == extract_string(args[1])
         IN  IF key.t = "None" THEN NoEffect(None)
             ELSE Effect(Integer(IF key.v \in DOMAIN data THEN 1 ELSE 0),
                         [k \in DOMAIN data \ {key.v} |-> data[k]],
                         channels, queue)

handle_subscribe(args) ==
    IF Len(args) # 1 THEN None
    ELSE LET channel == extract_string(args[1])
         IN  IF channel.t = "None" THEN None
             ELSE ResultSubscribe(channel.v)

\* try_send that takes one message more than the queue holds
try_send_over_capacity(s) == rx[s] = "open" /\ Len(queue[s]) <= QueueCapacity

\* Sender::try_send on the queue of subscriber s: fails when the queue is
\* full or its receiver has been dropped
try_send(s) == rx[s] = "open" /\ Len(queue[s]) < QueueCapacity

\* handle_publish that sends to every open queue, whatever its channel
handle_publish_to_all(args) ==
    IF Len(args) # 2 THEN NoEffect(None)
    ELSE LET channel == extract_string(args[1])
             message == extract_bytes(args[2])
         IN  IF channel.t = "None" \/ message.t = "None" THEN NoEffect(None)
             ELSE IF channel.v \in DOMAIN channels
             THEN LET senders == channels[channel.v]
                      kept == SelectSeq(senders, try_send)
                  IN  Effect(Integer(Len(senders)), data,
                             [channels EXCEPT ![channel.v] = kept],
                             [s \in Conns |->
                                 IF try_send(s)
                                 THEN Append(queue[s], message.v)
                                 ELSE queue[s]])
             ELSE NoEffect(Integer(0))

\* handle_publish that passes over the sender registered last
handle_publish_skips_newest(args) ==
    IF Len(args) # 2 THEN NoEffect(None)
    ELSE LET channel == extract_string(args[1])
             message == extract_bytes(args[2])
         IN  IF channel.t = "None" \/ message.t = "None" THEN NoEffect(None)
             ELSE IF channel.v \in DOMAIN channels
             THEN LET senders == channels[channel.v]
                      kept == SelectSeq(senders, try_send)
                  IN  Effect(Integer(Len(senders)), data,
                             [channels EXCEPT ![channel.v] = kept],
                             [s \in Conns |->
                                 IF /\ \E i \in 1..(Len(senders) - 1) :
                                          senders[i] = s
                                    /\ try_send(s)
                                 THEN Append(queue[s], message.v)
                                 ELSE queue[s]])
             ELSE NoEffect(Integer(0))

\* handle_publish that counts the senders left after the pruning
handle_publish_delivered_count(args) ==
    IF Len(args) # 2 THEN NoEffect(None)
    ELSE LET channel == extract_string(args[1])
             message == extract_bytes(args[2])
         IN  IF channel.t = "None" \/ message.t = "None" THEN NoEffect(None)
             ELSE IF channel.v \in DOMAIN channels
             THEN LET senders == channels[channel.v]
                      kept == SelectSeq(senders, try_send)
                  IN  Effect(Integer(Len(kept)), data,
                             [channels EXCEPT ![channel.v] = kept],
                             [s \in Conns |->
                                 IF /\ \E i \in 1..Len(senders) : senders[i] = s
                                    /\ try_send(s)
                                 THEN Append(queue[s], message.v)
                                 ELSE queue[s]])
             ELSE NoEffect(Integer(0))

handle_publish(args) ==
    IF Len(args) # 2 THEN NoEffect(None)
    ELSE LET channel == extract_string(args[1])
             message == extract_bytes(args[2])
         IN  IF channel.t = "None" \/ message.t = "None" THEN NoEffect(None)
             ELSE IF channel.v \in DOMAIN channels
             THEN LET senders == channels[channel.v]
                      kept == SelectSeq(senders, try_send)
                  IN  Effect(Integer(Len(senders)), data,
                             [channels EXCEPT ![channel.v] = kept],
                             [s \in Conns |->
                                 IF /\ \E i \in 1..Len(senders) : senders[i] = s
                                    /\ try_send(s)
                                 THEN Append(queue[s], message.v)
                                 ELSE queue[s]])
             ELSE NoEffect(Integer(0))

\* handle_command: the result is None (no reply), a Value, a Subscribe or,
\* for SET, the insertion that waits for the lock
handle_command(cmd, t) ==
    IF Len(cmd) = 0 THEN NoEffect(None)
    ELSE IF cmd[1].t # "BulkString" THEN NoEffect(None)
    ELSE IF ~Utf8Ok(cmd[1].b) THEN NoEffect(None)
    ELSE LET cmd_str == to_uppercase(cmd[1].b)
             args == Tail(cmd)
         IN  CASE cmd_str = PING -> NoEffect(SimpleString(PONG))
               [] cmd_str = SET -> NoEffect(handle_set(args, t))
               [] cmd_str = GET -> handle_get(args, t)
               [] cmd_str = DEL -> handle_del(args)
               [] cmd_str = SUBSCRIBE -> NoEffect(handle_subscribe(args))
               [] cmd_str = PUBLISH -> handle_publish(args)
               [] OTHER -> NoEffect(None)

IsValue(r) ==
    r.t \in {"SimpleString", "Error", "Integer", "BulkString", "Array", "Null"}

\* ------------------------------------------------------------------------
\* main.rs: the tasks
\* ------------------------------------------------------------------------

Empty == [k \in {} |-> None]

Put(f, k, v) == [x \in DOMAIN f \cup {k} |-> IF x = k THEN v ELSE f[x]]

\* new_db() and the tasks main() spawns, before any byte has arrived
new_db ==
    /\ data = Empty
    /\ channels = Empty
    /\ queue = [c \in Conns |-> <<>>]
    /\ rx = [c \in Conns |-> "none"]
    /\ pc = [c \in Conns |-> "reqresp"]
    /\ pending = [c \in Conns |-> None]
    /\ chan = [c \in Conns |-> None]
    /\ buf = [c \in Conns |-> <<>>]
    /\ net = <<>>
    /\ out = [c \in Conns |-> <<>>]
    /\ now = 0
    /\ last = [cmd |-> <<>>, result |-> None, found |-> FALSE]
    /\ sent = <<>>
    /\ delivered = <<>>
    /\ npub = 0
    /\ written = Empty
    /\ enq = [c \in Conns |-> <<>>]

CmdName(cmd) ==
    IF Len(cmd) > 0 /\ cmd[1].t = "BulkString" THEN to_uppercase(cmd[1].b)
    ELSE <<>>

\* a GET or DEL of one key finds an entry under that key
KeyFound(cmd) ==
    /\ CmdName(cmd) \in {GET, DEL}
    /\ Len(cmd) = 2
    /\ extract_string(cmd[2]).t = "Some"
    /\ cmd[2].b \in DOMAIN data

\* out keeps every frame of a subscriber and the replies of the byte-level
\* connection; a client of FrameConns has read its reply (it is in last)
\* before it sends the next request
Logged(c) == c = ByteConn

\* socket.write of one frame: it succeeds (wok) or the peer is gone and the
\* task returns
Write(c, frame, wok, next) ==
    IF wok
    THEN /\ out' = IF Logged(c) \/ next = "sub_loop"
                   THEN [out EXCEPT ![c] = Append(@, frame)] ELSE out
         /\ pc' = [pc EXCEPT ![c] = next]
         /\ rx' = rx
    ELSE /\ out' = out
         /\ pc' = [pc EXCEPT ![c] = "closed"]
         /\ rx' = [rx EXCEPT ![c] = IF @ = "open" THEN "dropped" ELSE @]

\* handle_subscribe_mode up to the confirmation: the queue is created and
\* its sender pushed on the channel's list under the write lock
Register(c, channel) ==
    /\ rx' = [rx EXCEPT ![c] = "open"]
    /\ chan' = [chan EXCEPT ![c] = Some(channel)]
    /\ channels' = Put(channels, channel,
                       IF channel \in DOMAIN channels
                       THEN Append(channels[channel], c) ELSE <<c>>)
    /\ pc' = [pc EXCEPT ![c] = "sub_confirm"]
    /\ UNCHANGED <<data, queue, pending, out, npub, written, enq>>

\* handle_connection, the arm Ok(Value::Array(arr)): the command is handed
\* to handle_command and its result written
Execute(c, cmd, wok) ==
    LET e == handle_command(cmd, now)
        r == e.result
    IN  /\ CmdName(cmd) = PUBLISH => npub < MaxPublishes
        /\ last' = [cmd |-> cmd,
                    result |-> IF r.t = "AwaitLock" THEN None ELSE r,
                    found |-> KeyFound(cmd)]
        /\ CASE r.t = "None" ->
                  UNCHANGED <<data, channels, queue, rx, pc, pending, chan,
                              out, npub, written, enq>>
             [] r.t = "AwaitLock" ->
                  /\ pc' = [pc EXCEPT ![c] = "set_lock"]
                  /\ pending' = [pending EXCEPT ![c] = r @@ [cmd |-> cmd]]
                  /\ UNCHANGED <<data, channels, queue, rx, chan, out, npub,
                                 written, enq>>
             [] r.t = "Subscribe" -> Register(c, r.channel)
             [] OTHER ->
                  /\ data' = e.data
                  /\ channels' = e.channels
                  /\ queue' = e.queue
                  /\ enq' = [s \in Conns |->
                               IF Len(e.queue[s]) > Len(queue[s])
                               THEN Append(enq[s], e.queue[s][Len(e.queue[s])])
                               ELSE enq[s]]
                  /\ npub' = IF CmdName(cmd) = PUBLISH THEN npub + 1 ELSE npub
                  /\ written' = IF CmdName(cmd) = DEL
                                THEN Put(written, cmd[2].b,
                                         [t |-> "Del", n |-> r.n])
                                ELSE written
                  /\ Write(c, r, wok, "reqresp")
                  /\ UNCHANGED <<pending, chan>>
        /\ now' = now

\* handle_connection, one turn of the loop after try_read_buf has put bytes
\* into the buffer: r is what parse_value makes of the buffer
Serve(c, r, wok) ==
    /\ buf' = [buf EXCEPT ![c] = r.rest]
    /\ IF r.res = "Ok" /\ r.val.t = "Array"
       THEN /\ Execute(c, r.val.a, wok)
            /\ delivered' = IF c = ByteConn
                            THEN Append(delivered, r.val.a) ELSE delivered
       ELSE UNCHANGED <<engineVars, delivered>>

\* a client of FrameConns sends one request frame, which one read delivers
\* into the empty buffer
Request(c, r, wok) ==
    /\ pc[c] = "reqresp"
    /\ buf[c] = <<>>
    /\ Serve(c, r, wok)
    /\ UNCHANGED <<net, sent, codecVars>>

\* handle_set from the lock on: the insertion and the reply OK
SetCommit(c, wok) ==
    /\ pc[c] = "set_lock"
    /\ data' = Put(data, pending[c].key,
                   DbValue(pending[c].value, pending[c].expiry))
    /\ written' = Put(written, pending[c].key,
                      [t |-> "Set", v |-> pending[c].value,
                       expiry |-> pending[c].expiry])
    /\ last' = [cmd |-> pending[c].cmd, result |-> SimpleString(OK),
                found |-> pending[c].key \in DOMAIN data]
    /\ pending' = [pending EXCEPT ![c] = None]
    /\ Write(c, SimpleString(OK), wok, "reqresp")
    /\ UNCHANGED <<channels, queue, chan, now, npub, enq, connVars, codecVars>>

\* the frames of subscriber mode
ConfirmFrame(channel) == Array(<<Bulk(SUBSCRIBED), Bulk(channel), Integer(1)>>)

MessageFrame(channel, message) ==
    Array(<<Bulk(MESSAGE), Bulk(channel), Bulk(message)>>)

\* handle_subscribe_mode that returns to the request loop once the
\* confirmation is written
SubConfirm_resumes_requests(c, wok) ==
    /\ pc[c] = "sub_confirm"
    /\ Write(c, ConfirmFrame(chan[c].v), wok, "reqresp")
    /\ UNCHANGED <<data, channels, queue, pending, chan, now, last, npub,
                   written, enq, connVars, codecVars>>

\* handle_subscribe_mode: the confirmation frame
SubConfirm(c, wok) ==
    /\ pc[c] = "sub_confirm"
    /\ Write(c, ConfirmFrame(chan[c].v), wok, "sub_loop")
    /\ UNCHANGED <<data, channels, queue, pending, chan, now, last, npub,
                   written, enq, connVars, codecVars>>

\* handle_subscribe_mode that writes the message at the head of the queue
\* and leaves it there
SubMessage_keeps_head(c, wok) ==
    /\ pc[c] = "sub_loop"
    /\ queue[c] # <<>>
    /\ queue' = queue
    /\ Write(c, MessageFrame(chan[c].v, Head(queue[c])), wok, "sub_loop")
    /\ UNCHANGED <<data, channels, pending, chan, now, last, npub, written,
                   enq, connVars, codecVars>>

\* handle_subscribe_mode: rx.recv() yields a message, which is written
SubMessage(c, wok) ==
    /\ pc[c] = "sub_loop"
    /\ queue[c] # <<>>
    /\ queue' = [queue EXCEPT ![c] = Tail(@)]
    /\ Write(c, MessageFrame(chan[c].v, Head(queue[c])), wok, "sub_loop")
    /\ UNCHANGED <<data, channels, pending, chan, now, last, npub, written,
                   enq, connVars, codecVars>>

\* the sender of c's queue is held by the channel's list only
SenderHeld(c) ==
    \E ch \in DOMAIN channels :
        \E i \in 1..Len(channels[ch]) : channels[ch][i] = c

\* handle_subscribe_mode that returns as soon as its sender has been
\* dropped, with messages still in the queue
SubClosed_drops_backlog(c) ==
    /\ pc[c] = "sub_loop"
    /\ ~SenderHeld(c)
    /\ pc' = [pc EXCEPT ![c] = "closed"]
    /\ rx' = [rx EXCEPT ![c] = "dropped"]
    /\ UNCHANGED <<data, channels, queue, pending, chan, out, now, last, npub,
                   written, enq, connVars, codecVars>>

\* handle_subscribe_mode: rx.recv() yields None once the queue is empty and
\* its sender has been dropped
SubClosed(c) ==
    /\ pc[c] = "sub_loop"
    /\ queue[c] = <<>>
    /\ ~SenderHeld(c)
    /\ pc' = [pc EXCEPT ![c] = "closed"]
    /\ rx' = [rx EXCEPT ![c] = "dropped"]
    /\ UNCHANGED <<data, channels, queue, pending, chan, out, now, last, npub,
                   written, enq, connVars, codecVars>>

\* handle_connection: try_read_buf returns Ok(0), the peer has closed
PeerClosed(c) ==
    /\ pc[c] = "reqresp"
    /\ c = ByteConn => net = <<>>
    /\ pc' = [pc EXCEPT ![c] = "closed"]
    /\ UNCHANGED <<data, channels, queue, rx, pending, chan, out, now, last,
                   npub, written, enq, connVars, codecVars>>

\* keys.choose_multiple(.., 20.min(keys.len()))
SampleSize == 20

Min(a, b) == IF a < b THEN a ELSE b

\* active_expiration that finds the expired keys of its sample and leaves
\* them in place
active_expiration_keeps_entries(sample) ==
    /\ sample \subseteq DOMAIN data
    /\ Cardinality(sample) = Min(SampleSize, Cardinality(DOMAIN data))
    /\ data' = data
    /\ UNCHANGED <<channels, queue, rx, pc, pending, chan, out, now, last,
                   npub, written, enq, connVars, codecVars>>

\* active_expiration that removes every key it samples
active_expiration_removes_sample(sample) ==
    /\ sample \subseteq DOMAIN data
    /\ Cardinality(sample) = Min(SampleSize, Cardinality(DOMAIN data))
    /\ data' = [k \in DOMAIN data \ sample |-> data[k]]
    /\ UNCHANGED <<channels, queue, rx, pc, pending, chan, out, now, last,
                   npub, written, enq, connVars, codecVars>>

\* active_expiration: one tick; the sampled keys that are expired go
active_expiration(sample) ==
    /\ sample \subseteq DOMAIN data
    /\ Cardinality(sample) = Min(SampleSize, Cardinality(DOMAIN data))
    /\ data' = [k \in {x \in DOMAIN data :
                          ~(x \in sample /\ is_expired(data[x], now))}
                  |-> data[k]]
    /\ UNCHANGED <<channels, queue, rx, pc, pending, chan, out, now, last,
                   npub, written, enq, connVars, codecVars>>

\* the monotonic clock advances
Tick ==
    /\ now < MaxTime
    /\ now' = now + 1
    /\ UNCHANGED <<data, channels, queue, rx, pc, pending, chan, out, last,
                   npub, written, enq, connVars, codecVars>>

\* ------------------------------------------------------------------------
\* The byte-level connection: the client writes frames to the socket and
\* TCP hands them to try_read_buf in fragments of any size
\* ------------------------------------------------------------------------

\* the top-level frames the client of ByteConn sends
Frames ==
    {Array(<<Bulk(PING)>>),
     Array(<<Bulk(GET), Bulk(<<"k">>)>>),
     Array(<<Bulk(SET), Bulk(<<"k">>), Bulk(<<"v">>)>>),
     Array(<<Bulk(GET), Bulk(<<"*", "0", CR, LF>>)>>),
     Array(<<Array(<<Bulk(PING)>>)>>)}

ClientSend(f) ==
    /\ Len(sent) < MaxFrames
    /\ pc[ByteConn] # "closed"
    /\ net' = net \o serialize_value(f)
    /\ sent' = Append(sent, f)
    /\ UNCHANGED <<engineVars, buf, delivered, codecVars>>

\* handle_connection, one turn of the loop: try_read_buf takes the first n
\* bytes off the socket
ConnRead(n, wok) ==
    /\ pc[ByteConn] = "reqresp"
    /\ n \in 1..Len(net)
    /\ net' = Drop(net, n)
    /\ Serve(ByteConn, parse_value(buf[ByteConn] \o SubSeq(net, 1, n)), wok)
    /\ UNCHANGED <<sent, codecVars>>

\* ------------------------------------------------------------------------
\* The codec on its own: the encoding of a value reaches a buffer in one or
\* two parts, and parse_value runs on the buffer after each part
\* ------------------------------------------------------------------------

CodecValues ==
    {SimpleString(OK), Error(<<"E">>), Integer(7), Integer(0 - 1),
     Integer(12), Bulk(<<>>), Bulk(<<"a", "b">>), Bulk(CRLF), Null,
     Array(<<>>), Array(<<Bulk(PING)>>),
     Array(<<Integer(1), Array(<<Bulk(<<"a">>)>>), Null>>),
     SimpleString(<<>>), Integer(0), Integer(2147483647),
     Bulk(<<"xFF", "$", "1">>)}

\* the bytes that follow a frame in the buffer: the start of another frame,
\* a whole frame, line ends and a byte that starts no frame
Trails ==
    {<<"+">>, <<CR>>, CRLF, <<"x">>, serialize_value(Null),
     serialize_value(Array(<<Bulk(PING)>>))}

InitCodec ==
    /\ new_db
    /\ cv \in CodecValues
    /\ cbuf = <<>>
    /\ cphase = "start"
    /\ cfed = 0
    /\ cparts = 0
    /\ cres = None
    /\ cbefore = <<>>

\* the next n bytes of the encoding are appended to the buffer: any part
\* first, then all that is left
CodecFeed(n) ==
    /\ cphase \in {"start", "parsed"}
    /\ cfed < Len(serialize_value(cv))
    /\ n \in 1..(Len(serialize_value(cv)) - cfed)
    /\ cphase = "parsed" => n = Len(serialize_value(cv)) - cfed
    /\ cbuf' = cbuf \o SubSeq(serialize_value(cv), cfed + 1, cfed + n)
    /\ cfed' = cfed + n
    /\ cparts' = cparts + 1
    /\ cphase' = "fed"
    /\ UNCHANGED <<cv, cres, cbefore, engineVars, connVars>>

\* the whole encoding reaches the empty buffer, followed by more bytes
CodecFeedFrame(trail) ==
    /\ cphase = "start"
    /\ cbuf' = serialize_value(cv) \o trail
    /\ cfed' = Len(serialize_value(cv))
    /\ cparts' = 1
    /\ cphase' = "fed"
    /\ UNCHANGED <<cv, cres, cbefore, engineVars, connVars>>

CodecParse ==
    /\ cphase = "fed"
    /\ cbefore' = cbuf
    /\ cres' = [res |-> parse_value(cbuf).res, val |-> parse_value(cbuf).val]
    /\ cbuf' = parse_value(cbuf).rest
    /\ cphase' = "parsed"
    /\ UNCHANGED <<cv, cfed, cparts, engineVars, connVars>>

NextCodec ==
    \/ \E n \in 1..MaxEncoding : CodecFeed(n)
    \/ \E trail \in Trails : CodecFeedFrame(trail)
    \/ CodecParse

SpecCodec == InitCodec /\ [][NextCodec]_vars

InitCodecIdle ==
    /\ cv = Null
    /\ cbuf = <<>>
    /\ cphase = "idle"
    /\ cfed = 0
    /\ cparts = 0
    /\ cres = None
    /\ cbefore = <<>>

Init == new_db /\ InitCodecIdle

\* the steps of the subscribers and of the expirer
Tasks ==
    \/ \E c \in FrameConns, wok \in BOOLEAN : SubConfirm(c, wok)
    \/ \E c \in FrameConns, wok \in BOOLEAN : SubMessage(c, wok)
    \/ \E sample \in SUBSET DOMAIN data : active_expiration(sample)

\* c1 publishes where the keyspace is under study
KeyPublishArrival == Arrival(KeyPublishRequest)

KeyPublish ==
    /\ npub < MaxKeyPublishes
    /\ Request("c1", KeyPublishArrival, TRUE)

Next ==
    \/ \E c \in FrameConns : \E r \in KeyArrivals[c] : Request(c, r, TRUE)
    \/ KeyPublish
    \/ \E c \in FrameConns : SetCommit(c, TRUE)
    \/ Tasks
    \/ Tick

Spec == Init /\ [][Next]_vars

\* (in Spec no queue fills, so that no sender is dropped and SubClosed is
\* never enabled; here no client sends SET)
NextChannels ==
    \/ \E c \in FrameConns : \E r \in ChannelArrivals[c] : Request(c, r, TRUE)
    \/ Tasks
    \/ \E c \in FrameConns : SubClosed(c)

SpecChannels == Init /\ [][NextChannels]_vars

NextConn ==
    \/ \E f \in Frames : ClientSend(f)
    \/ \E n \in 1..MaxStream, wok \in BOOLEAN : ConnRead(n, wok)
    \/ \E wok \in BOOLEAN : SetCommit(ByteConn, wok)
    \/ PeerClosed(ByteConn)

SpecConn == Init /\ [][NextConn]_vars

\* ------------------------------------------------------------------------
\* The frame codec
\* ------------------------------------------------------------------------

Encoding == serialize_value(cv)

\* parse_value has run on a non-empty proper prefix of the encoding
ParsedPrefix == cphase = "parsed" /\ cfed < Len(Encoding)

\* parse_value has run on the prefix, and again once the suffix was appended
ParsedStitched == cphase = "parsed" /\ cfed = Len(Encoding) /\ cparts = 2

\* C1: resumability of decode.  For every split of a well-formed encoding
\* into a non-empty proper prefix and a suffix, parse_value on the prefix
\* returns Incomplete, and once the suffix is appended to that buffer the
\* next parse_value returns the original value.
C1_Resumable ==
    /\ ParsedPrefix => cres.res = "Incomplete"
    /\ ParsedStitched => cres.res = "Ok" /\ cres.val = cv

\* C2: whenever parse_value returns Incomplete, the buffer is left exactly
\* as it was before the call.
C2_IncompleteKeepsBuffer ==
    (cphase = "parsed" /\ cres.res = "Incomplete") => cbuf = cbefore

\* ------------------------------------------------------------------------
\* The keyspace
\* ------------------------------------------------------------------------

AllKeys == Keys \cup {<<"j">>}

GetArrivals ==
    [k \in AllKeys |->
        {Arrival(<<Bulk(g), Bulk(k)>>) : g \in {GET, <<"g", "e", "t">>}}]

DelArrivals == [k \in AllKeys |-> Arrival(<<Bulk(DEL), Bulk(k)>>)]

\* some connection executes GET k (in either case of the command name)
GetStep(k) ==
    /\ UNCHANGED <<now, pc, queue>>
    /\ CmdName(last'.cmd) = GET
    /\ last'.cmd[2] = Bulk(k)
    /\ \E c \in FrameConns : \E r \in GetArrivals[k] : Request(c, r, TRUE)

\* some connection executes DEL k
DelStep(k) ==
    /\ UNCHANGED <<now, pc, queue>>
    /\ CmdName(last'.cmd) = DEL
    /\ last'.cmd[2] = Bulk(k)
    /\ \E c \in FrameConns : Request(c, DelArrivals[k], TRUE)

\* the last write of k was a SET that has replied OK, and its deadline, if
\* it has one, has not passed
Fresh(k) ==
    /\ k \in DOMAIN written
    /\ written[k].t = "Set"
    /\ ~(written[k].expiry.t = "Some" /\ now > written[k].expiry.v)

\* the last write of k was a DEL
Deleted(k) == k \in DOMAIN written /\ written[k].t = "Del"

\* C4: write-then-read.  After SET k v has replied OK, every GET k, from any
\* connection, returns BulkString v until the next SET or DEL of k or until
\* the deadline of k passes, whatever else the other connections, the
\* subscribers and the expirer do in between.
C4_WriteThenRead ==
    [][\A k \in AllKeys :
          (Fresh(k) /\ GetStep(k)) => last'.result = BulkString(written[k].v)
      ]_vars

\* a GET has returned the payload of an entry with a TTL at the very instant
\* of its deadline, after a publish and with another key in the keyspace
C4_Witness ==
    /\ CmdName(last.cmd) = GET
    /\ last.result = BulkString(<<"v">>)
    /\ Fresh(<<"k">>)
    /\ written[<<"k">>].expiry = Some(now)
    /\ now > 0
    /\ npub > 0
    /\ <<"j">> \in DOMAIN data

\* C5: lazy expiry.  A GET k on an entry whose deadline is set and past
\* returns Null, never the payload, and leaves k absent from the keyspace.
C5_LazyExpiry ==
    [][\A k \in AllKeys :
          (/\ k \in DOMAIN data
           /\ data[k].expiry.t = "Some"
           /\ now > data[k].expiry.v
           /\ GetStep(k))
          => (last'.result = Null /\ k \notin DOMAIN data')
      ]_vars

\* a GET has found an entry under k and returned Null: the entry, written
\* with a TTL, was past its deadline, and it is gone
C5_Witness ==
    /\ CmdName(last.cmd) = GET
    /\ last.found
    /\ last.result = Null
    /\ <<"k">> \in DOMAIN written
    /\ written[<<"k">>].t = "Set"
    /\ written[<<"k">>].expiry.t = "Some"
    /\ now > written[<<"k">>].expiry.v
    /\ <<"k">> \notin DOMAIN data

\* C6: delete idempotence.  DEL k returns 1 exactly when k was present and
\* 0 otherwise and leaves k absent; after a DEL k with no SET k since, the
\* next DEL k returns 0 and the next GET k returns Null.
C6_DeleteIdempotent ==
    [][\A k \in AllKeys :
          /\ DelStep(k) =>
                /\ last'.result = Integer(IF k \in DOMAIN data THEN 1 ELSE 0)
                /\ k \notin DOMAIN data'
                /\ Deleted(k) => last'.result = Integer(0)
          /\ (Deleted(k) /\ GetStep(k)) => last'.result = Null
      ]_vars

\* a GET k has returned Null after a DEL k that returned 1
C6_Witness ==
    /\ CmdName(last.cmd) = GET
    /\ last.result = Null
    /\ <<"k">> \in DOMAIN written
    /\ written[<<"k">>] = [t |-> "Del", n |-> 1]

\* ------------------------------------------------------------------------
\* The connection driver
\* ------------------------------------------------------------------------

\* C3: no partial frame reaches the executor.  Every array that
\* handle_connection hands to handle_command is one complete top-level frame
\* the client sent, and the arrays are handed over in the order of the
\* stream.
RECURSIVE IsSubsequence(_, _)
IsSubsequence(a, b) ==
    IF Len(a) = 0 THEN TRUE
    ELSE IF Len(b) = 0 THEN FALSE
    ELSE IF Head(a) = Head(b) THEN IsSubsequence(Tail(a), Tail(b))
    ELSE IsSubsequence(a, Tail(b))

C3_NoPartialFrame ==
    IsSubsequence([i \in 1..Len(delivered) |-> Array(delivered[i])], sent)

\* C10: response per request.  Every complete, recognized command frame the
\* server has received is answered with exactly one reply without further
\* bytes from the client: once the connection waits for the socket with
\* nothing left in flight, it has written one reply per such frame sent.
Answerable(f) == f.t = "Array" /\ handle_command(f.a, now).result.t # "None"

C10_ResponsePerRequest ==
    (pc[ByteConn] = "reqresp" /\ net = <<>>)
    => Len(out[ByteConn]) = Cardinality({i \in 1..Len(sent) : Answerable(sent[i])})

IsPrefix(a, b) == Len(a) <= Len(b) /\ a = SubSeq(b, 1, Len(a))

\* the replies a connection owes to the frames it was sent, executed one
\* after the other from the keyspace d: PONG for PING, OK for SET, and for
\* GET the payload that the earlier SETs of the connection left under the key
RECURSIVE ExpectedReplies(_, _)
ExpectedReplies(frames, d) ==
    IF Len(frames) = 0 THEN <<>>
    ELSE LET f == Head(frames)
             name == CmdName(f.a)
         IN  IF ~Answerable(f) THEN ExpectedReplies(Tail(frames), d)
             ELSE CASE name = PING ->
                         <<SimpleString(PONG)>>
                         \o ExpectedReplies(Tail(frames), d)
                    [] name = SET ->
                         <<SimpleString(OK)>>
                         \o ExpectedReplies(Tail(frames),
                                            Put(d, f.a[2].b, f.a[3].b))
                    [] name = GET ->
                         <<IF f.a[2].b \in DOMAIN d
                           THEN BulkString(d[f.a[2].b]) ELSE Null>>
                         \o ExpectedReplies(Tail(frames), d)

\* C11: per-connection ordering.  The replies written on a connection are,
\* in order, the replies to the reply-producing requests the client sent:
\* the k-th reply written answers the k-th such request, with the content
\* the keyspace has after the earlier requests of the connection.
C11_PerConnectionOrder ==
    IsPrefix(out[ByteConn], ExpectedReplies(sent, Empty))

\* ------------------------------------------------------------------------
\* The channels
\* ------------------------------------------------------------------------

PublishArrivals ==
    [ch \in Channels |->
        [m \in Messages |-> Arrival(<<Bulk(PUBLISH), Bulk(ch), Bulk(m)>>)]]

\* some connection executes PUBLISH ch m
PublishStep(ch, m) ==
    /\ npub' = npub + 1
    /\ last'.cmd = <<Bulk(PUBLISH), Bulk(ch), Bulk(m)>>
    /\ \E c \in FrameConns : Request(c, PublishArrivals[ch][m], TRUE)

\* the subscribers on the list of ch
Subscribers(ch) ==
    IF ch \in DOMAIN channels
    THEN {channels[ch][i] : i \in 1..Len(channels[ch])} ELSE {}

SubscribersAfter(ch) ==
    IF ch \in DOMAIN channels'
    THEN {channels'[ch][i] : i \in 1..Len(channels'[ch])} ELSE {}

\* a subscriber with a live consumer and room in its queue
Healthy(s) == rx[s] = "open" /\ Len(queue[s]) < QueueCapacity

Full(s) == Len(queue[s]) = QueueCapacity

\* the frames a live subscriber has written and the messages it still holds
\* are, in order, the messages enqueued to it after the confirmation
Delivered(s) ==
    LET n == Len(enq[s]) - Len(queue[s])
    IN  /\ n >= 0
        /\ queue[s] = SubSeq(enq[s], n + 1, Len(enq[s]))
        /\ pc[s] = "sub_confirm" => out[s] = <<>> /\ n = 0
        /\ pc[s] = "sub_loop" =>
              out[s] = <<ConfirmFrame(chan[s].v)>>
                       \o [i \in 1..n |-> MessageFrame(chan[s].v, enq[s][i])]

\* C7: publish fan-out.  With N healthy subscribers on channel ch, PUBLISH
\* ch m returns Integer N and enqueues m once to each of them and to no
\* other connection; a subscriber writes one message frame [message, ch, m]
\* for each message enqueued to it, so that a drained subscriber has written
\* exactly one frame per publish.
C7_PublishFanOut ==
    /\ [][\A ch \in Channels, m \in Messages :
             (PublishStep(ch, m) /\ \A s \in Subscribers(ch) : Healthy(s))
             => /\ last'.result = Integer(Cardinality(Subscribers(ch)))
                /\ \A s \in Conns :
                      queue'[s] = IF s \in Subscribers(ch)
                                  THEN Append(queue[s], m) ELSE queue[s]
        ]_vars
    /\ [](\A s \in FrameConns :
             pc[s] \in {"sub_confirm", "sub_loop"} => Delivered(s))

\* a publish to two healthy subscribers has returned 2 and each of them has
\* written its one message frame
C7_Witness ==
    /\ last.cmd = <<Bulk(PUBLISH), Bulk(<<"a">>), Bulk(<<"m">>)>>
    /\ last.result = Integer(2)
    /\ \A s \in {"c2", "c3"} :
          /\ pc[s] = "sub_loop"
          /\ queue[s] = <<>>
          /\ out[s] = <<ConfirmFrame(<<"a">>), MessageFrame(<<"a">>, <<"m">>)>>

\* C8: slow-subscriber eviction.  A queue never holds more than its
\* capacity; a subscriber whose queue is full is taken off the list of its
\* channel by the next PUBLISH to it, which does not enqueue the message to
\* that subscriber; and a PUBLISH to a channel whose list is empty returns
\* 0 and leaves it empty.
C8_SlowSubscriberEvicted ==
    /\ [](\A s \in Conns : Len(queue[s]) <= QueueCapacity)
    /\ [][\A ch \in Channels, m \in Messages :
             PublishStep(ch, m) =>
                /\ \A s \in Subscribers(ch) :
                      Full(s) => /\ s \notin SubscribersAfter(ch)
                                 /\ queue'[s] = queue[s]
                /\ (\A s \in Subscribers(ch) : Full(s))
                   => SubscribersAfter(ch) = {}
                /\ Subscribers(ch) = {} => last'.result = Integer(0)
        ]_vars

\* a subscriber of channel a sits on a full queue, off the list, and a
\* later PUBLISH to a has returned 0
C8_Witness ==
    /\ CmdName(last.cmd) = PUBLISH
    /\ last.cmd[2] = Bulk(<<"a">>)
    /\ last.result = Integer(0)
    /\ <<"a">> \in DOMAIN channels
    /\ channels[<<"a">>] = <<>>
    /\ \E s \in FrameConns :
          chan[s] = Some(<<"a">>) /\ rx[s] = "open" /\ Full(s)

\* the scheduler runs every task that can take a step
FairSpecChannels ==
    SpecChannels /\ WF_vars(Tasks \/ \E c \in FrameConns : SubClosed(c))

\* C9: dead-subscriber cleanup.  Once the consumer of a subscriber queue is
\* gone, its sender is eventually removed from the channel registry.
C9_DeadSubscriberRemoved ==
    \A s \in FrameConns :
        (rx[s] = "dropped" /\ SenderHeld(s)) ~> ~SenderHeld(s)

\* C12: PUBLISH reply count.  PUBLISH ch m returns the number of senders on
\* the list of ch when the publish holds the lock, before the pruning: the
\* subscribers this publish fails to enqueue to and removes are counted; it
\* returns 0 when ch has no list.
C12_PublishReplyCount ==
    [][\A ch \in Channels, m \in Messages :
          PublishStep(ch, m) =>
             last'.result = Integer(IF ch \in DOMAIN channels
                                    THEN Len(channels[ch]) ELSE 0)
      ]_vars

\* a PUBLISH to a has returned 2 and emptied the list: of its two
\* subscribers one sat on a full queue and the other had dropped its receiver
C12_Witness ==
    /\ CmdName(last.cmd) = PUBLISH
    /\ last.cmd[2] = Bulk(<<"a">>)
    /\ last.result = Integer(2)
    /\ channels[<<"a">>] = <<>>
    /\ \E s \in FrameConns : chan[s] = Some(<<"a">>) /\ rx[s] = "dropped"
    /\ \E s \in FrameConns :
          chan[s] = Some(<<"a">>) /\ rx[s] = "open" /\ Full(s)

\* ------------------------------------------------------------------------
\* The codec round trip
\* ------------------------------------------------------------------------

\* parse_value has run on a buffer that held the whole encoding of cv from
\* its first byte on, alone or followed by more bytes
ParsedWhole ==
    /\ cphase = "parsed"
    /\ cparts = 1
    /\ cfed = Len(Encoding)
    /\ IsPrefix(Encoding, cbefore)

\* C13: codec round trip.  For every well-formed Value, parse_value on the
\* encoder's output yields the same Value and consumes exactly the bytes of
\* the encoding: the bytes that follow it are left in the buffer untouched.
C13_RoundTrip ==
    ParsedWhole => /\ cres.res = "Ok"
                   /\ cres.val = cv
                   /\ cbuf = Drop(cbefore, Len(Encoding))

\* a nested array has been parsed back out of a buffer that still holds the
\* whole frame that followed it
C13_Witness ==
    /\ ParsedWhole
    /\ cv = Array(<<Integer(1), Array(<<Bulk(<<"a">>)>>), Null>>)
    /\ cres.val = cv
    /\ cbuf = serialize_value(Array(<<Bulk(PING)>>))

\* ------------------------------------------------------------------------
\* The command forms: one client sends well-formed and ill-formed request
\* arrays while the clock runs
\* ------------------------------------------------------------------------

FormConn == "c1"

\* the request arrays of that client: every command with too few and too
\* many arguments, unknown and non-UTF-8 names, elements that are no bulk
\* strings, and SET with every kind of seconds argument
FormRequests ==
    {<<>>,
     <<Bulk(<<"F", "O", "O">>)>>,
     <<Bulk(<<"xFF">>)>>,
     <<Integer(1)>>,
     <<Bulk(PING)>>,
     <<Bulk(PING), Bulk(<<"x">>)>>,
     <<Bulk(GET)>>,
     <<Bulk(GET), Bulk(<<"k">>)>>,
     <<Bulk(GET), Bulk(<<"k">>), Bulk(<<"k">>)>>,
     <<Bulk(GET), Integer(1)>>,
     <<Bulk(DEL), Bulk(<<"k">>)>>,
     <<Bulk(DEL), Bulk(<<"k">>), Bulk(<<"k">>)>>,
     <<Bulk(PUBLISH), Bulk(<<"a">>)>>,
     <<Bulk(SUBSCRIBE)>>,
     <<Bulk(SUBSCRIBE), Bulk(<<"a">>), Bulk(<<"b">>)>>,
     <<Bulk(SET), Bulk(<<"k">>)>>,
     <<Bulk(SET), Bulk(<<"k">>), Integer(1)>>,
     <<Bulk(SET), Bulk(<<"k">>), Bulk(<<"v">>)>>,
     <<Bulk(SET), Bulk(<<"k">>), Bulk(<<"w">>)>>,
     <<Bulk(SET), Bulk(<<"k">>), Bulk(<<"v">>), Bulk(<<"x">>)>>,
     <<Bulk(SET), Bulk(<<"k">>), Bulk(<<"v">>), Bulk(<<"X", "X">>),
       Bulk(<<"1">>)>>,
     <<Bulk(SET), Bulk(<<"k">>), Bulk(<<"v">>), Integer(1), Bulk(<<"1">>)>>}
    \cup {<<Bulk(SET), Bulk(<<"k">>), Bulk(<<"v">>), Bulk(EX), Bulk(s)>> :
             s \in Seconds \cup {<<"xFF">>}}

FormArrivals == {Arrival(a) : a \in FormRequests}

NextForms ==
    \/ \E r \in FormArrivals : Request(FormConn, r, TRUE)
    \/ SetCommit(FormConn, TRUE)
    \/ Tick

SpecForms == Init /\ [][NextForms]_vars

KnownCommands == {PING, SET, GET, DEL, PUBLISH, SUBSCRIBE}

\* the argument count of a command array matches the form of its command
FormOk(cmd) ==
    LET name == CmdName(cmd)
    IN  CASE name = PING -> Len(cmd) = 1
          [] name = SET -> Len(cmd) = 3 \/ (Len(cmd) = 5 /\ cmd[4].b = EX)
          [] name \in {GET, DEL, SUBSCRIBE} -> Len(cmd) = 2
          [] name = PUBLISH -> Len(cmd) = 3
          [] OTHER -> FALSE

\* a request array that is empty, has an element that is no bulk string, a
\* name that is unknown or not UTF-8, or an argument count that does not
\* match its command
IllFormed(cmd) ==
    IF Len(cmd) = 0 THEN TRUE
    ELSE IF \E i \in 1..Len(cmd) : cmd[i].t # "BulkString" THEN TRUE
    ELSE IF ~Utf8Ok(cmd[1].b) THEN TRUE
    ELSE IF CmdName(cmd) \notin KnownCommands THEN TRUE
    ELSE ~FormOk(cmd)

\* C14: unrecognized or ill-formed commands are dropped without effect.  An
\* ill-formed request array produces no reply and no mode switch, leaves the
\* keyspace and the channel registry unchanged, and the connection keeps
\* serving.
C14_IllFormedDropped ==
    /\ [](IllFormed(last.cmd) => last.result = None)
    /\ [][IllFormed(last'.cmd) =>
             UNCHANGED <<data, channels, chan, rx, pc, out>>]_vars

\* a SET of one of the two forms: key value, or key value EX seconds
SetForm(cmd) ==
    ~IllFormed(cmd) /\ CmdName(cmd) = SET /\ Utf8Ok(cmd[2].b)

SetFormArrivals == {r \in FormArrivals : SetForm(r.val.a)}

\* the deadline of the entry: the instant t plus the seconds when the form
\* has EX and the seconds are a non-negative decimal integer, none otherwise
ExpectedExpiry(cmd, t) ==
    IF Len(cmd) = 5 /\ AllDigits(cmd[5].b)
    THEN Some(t + DigitsVal(cmd[5].b)) ELSE None

\* C15: SET with TTL.  SET key value EX seconds replies OK and stores the
\* entry with the deadline now + seconds when seconds is a non-negative
\* decimal integer, and with no deadline when seconds does not parse; SET
\* without EX stores an entry with no deadline; the entry replaces whatever
\* was stored under the key.
C15_SetWithTtl ==
    /\ [][\A r \in SetFormArrivals :
             (last'.cmd = r.val.a /\ Request(FormConn, r, TRUE))
             => /\ pc'[FormConn] = "set_lock"
                /\ pending'[FormConn].key = r.val.a[2].b
                /\ pending'[FormConn].value = r.val.a[3].b
                /\ pending'[FormConn].expiry = ExpectedExpiry(r.val.a, now)
        ]_vars
    /\ [][(pc[FormConn] = "set_lock" /\ SetCommit(FormConn, TRUE))
          => /\ last'.result = SimpleString(OK)
             /\ data' = Put(data, pending[FormConn].key,
                            DbValue(pending[FormConn].value,
                                    pending[FormConn].expiry))
        ]_vars

\* ------------------------------------------------------------------------
\* Subscriber mode on the byte-level connection: its client sends SUBSCRIBE
\* and goes on sending frames, while another client publishes.  A read takes
\* all the bytes that have arrived.
\* ------------------------------------------------------------------------

SubFrames ==
    {Array(<<Bulk(SUBSCRIBE), Bulk(<<"a">>)>>),
     Array(<<Bulk(SUBSCRIBE), Bulk(<<"b">>)>>),
     Array(<<Bulk(PING)>>),
     Array(<<Bulk(SET), Bulk(<<"k">>), Bulk(<<"v">>)>>)}

NextSubscriber ==
    \/ \E f \in SubFrames : ClientSend(f)
    \/ \E wok \in BOOLEAN : ConnRead(Len(net), wok)
    \/ SetCommit(ByteConn, TRUE)
    \/ \E wok \in BOOLEAN : SubConfirm(ByteConn, wok)
    \/ \E wok \in BOOLEAN : SubMessage(ByteConn, wok)
    \/ SubClosed(ByteConn)
    \/ \E m \in Messages :
          Request("c1", PublishArrivals[<<"a">>][m], TRUE)

SpecSubscriber == Init /\ [][NextSubscriber]_vars

\* the connection has executed SUBSCRIBE
Subscribed(c) == chan[c].t = "Some"

\* how often the sender of c's queue is on the list of ch
Registrations(c, ch) ==
    IF ch \in DOMAIN channels
    THEN Cardinality({i \in 1..Len(channels[ch]) : channels[ch][i] = c})
    ELSE 0

\* C16: one-way switch to subscriber mode.  Once a connection has executed
\* SUBSCRIBE ch it never serves a request again: no byte its client sends
\* is read, decoded or executed, so that the keyspace stays as it is, no
\* registration is added and nothing but the confirmation and message frames
\* of ch is written; it is registered on ch only; and it ends only when a
\* write fails or when its queue is empty and its sender dropped.
C16_OneWaySwitch ==
    /\ [][Subscribed(ByteConn) =>
             /\ pc'[ByteConn] \in {"sub_confirm", "sub_loop", "closed"}
             /\ chan'[ByteConn] = chan[ByteConn]
             /\ IsPrefix(net, net')
             /\ UNCHANGED <<buf, delivered, data>>
             /\ DOMAIN channels' = DOMAIN channels
             /\ \A ch \in Channels : SubscribersAfter(ch) \subseteq Subscribers(ch)
             /\ \/ out'[ByteConn] = out[ByteConn]
                \/ out'[ByteConn] =
                       Append(out[ByteConn], ConfirmFrame(chan[ByteConn].v))
                \/ \E m \in Messages :
                      out'[ByteConn] =
                          Append(out[ByteConn],
                                 MessageFrame(chan[ByteConn].v, m))
             /\ (pc[ByteConn] # "closed" /\ pc'[ByteConn] = "closed")
                => \/ SubConfirm(ByteConn, FALSE)
                   \/ SubMessage(ByteConn, FALSE)
                   \/ SubClosed(ByteConn)
        ]_vars
    /\ [](Subscribed(ByteConn) =>
             \A ch \in Channels :
                Registrations(ByteConn, ch)
                    <= (IF ch = chan[ByteConn].v THEN 1 ELSE 0))

\* a subscriber of a has written its confirmation and a message while the
\* SET that its client sent afterwards lies unread on the socket
C16_Witness ==
    /\ pc[ByteConn] = "sub_loop"
    /\ chan[ByteConn] = Some(<<"a">>)
    /\ sent = <<Array(<<Bulk(SUBSCRIBE), Bulk(<<"a">>)>>),
                Array(<<Bulk(SET), Bulk(<<"k">>), Bulk(<<"v">>)>>)>>
    /\ net = serialize_value(sent[2])
    /\ Len(out[ByteConn]) = 2
    /\ data = Empty
    /\ Registrations(ByteConn, <<"a">>) = 1

\* ------------------------------------------------------------------------
\* The removal of entries
\* ------------------------------------------------------------------------

\* the entry under k has a deadline and the deadline has passed
Expired(k) == data[k].expiry.t = "Some" /\ now > data[k].expiry.v

\* the entry under k is removed or replaced in this step
Leaves(k) ==
    /\ k \in DOMAIN data
    /\ k \notin DOMAIN data' \/ data'[k] # data[k]

\* some connection inserts the entry of its SET k
SetCommitStep(k) ==
    \E c \in FrameConns :
        pc[c] = "set_lock" /\ pending[c].key = k /\ SetCommit(c, TRUE)

\* C17: entry removal is justified in every interleaving.  An entry leaves
\* the keyspace only through a DEL of its key, a SET that overwrites it, a
\* GET that finds it expired or the expirer finding it expired; an entry
\* with no deadline, or whose deadline has not passed, is removed by neither
\* GET nor the expirer, whatever SET is under way on another connection.
C17_RemovalJustified ==
    [][\A k \in AllKeys :
          Leaves(k) =>
             \/ DelStep(k)
             \/ SetCommitStep(k)
             \/ /\ Expired(k)
                /\ \/ GetStep(k)
                   \/ \E sample \in SUBSET DOMAIN data :
                         active_expiration(sample)
      ]_vars

\* the entry of a SET k with a TTL is gone after its deadline with no DEL of
\* k, while a SET of k waits for the lock on c1 and the entry without
\* deadline under j is still there
C17_Witness ==
    /\ <<"k">> \in DOMAIN written
    /\ written[<<"k">>].t = "Set"
    /\ written[<<"k">>].expiry.t = "Some"
    /\ now > written[<<"k">>].expiry.v
    /\ <<"k">> \notin DOMAIN data
    /\ pc["c1"] = "set_lock"
    /\ pending["c1"].key = <<"k">>
    /\ <<"j">> \in DOMAIN data

\* ------------------------------------------------------------------------
\* The expirer on a keyspace of more than SampleSize keys: one client fills
\* the keyspace with SampleSize entries that never expire, another writes
\* the key k with a TTL, and nobody reads or deletes
\* ------------------------------------------------------------------------

FillerKey(i) == <<"f">> \o NatToDecimal(i)

FillerKeys == {FillerKey(i) : i \in 1..SampleSize}

LoadArrivals ==
    [i \in 1..SampleSize |->
        Arrival(<<Bulk(SET), Bulk(FillerKey(i)), Bulk(<<"v">>)>>)]

TtlArrivals ==
    {Arrival(<<Bulk(SET), Bulk(<<"k">>), Bulk(<<"v">>), Bulk(EX), Bulk(s)>>) :
        s \in {<<"0">>, <<"1">>}}

\* the filler entries in the keyspace
Loaded == Cardinality(DOMAIN data \cap FillerKeys)

\* c2 sends the SET of the next filler key
Load ==
    /\ Loaded < SampleSize
    /\ Request("c2", LoadArrivals[Loaded + 1], TRUE)

\* what choose_multiple can return on a keyspace of at most SampleSize + 1
\* keys: all the keys, or all but one
Samples ==
    IF Cardinality(DOMAIN data) <= SampleSize THEN {DOMAIN data}
    ELSE {DOMAIN data \ {x} : x \in DOMAIN data}

NextExpiry ==
    \/ Load
    \/ \E r \in TtlArrivals : Request("c1", r, TRUE)
    \/ \E c \in {"c1", "c2"} : SetCommit(c, TRUE)
    \/ \E sample \in Samples : active_expiration(sample)
    \/ Tick

SpecExpiry == Init /\ [][NextExpiry]_vars

\* the expirer keeps ticking and its sampling is fair to the key k
FairSpecExpiry ==
    SpecExpiry
    /\ WF_vars(\E sample \in Samples :
                  <<"k">> \in sample /\ active_expiration(sample))

\* C18: active expiry makes progress.  An entry written with a TTL whose
\* deadline has passed, and that is not written again, is eventually removed
\* from the keyspace by the expirer, which samples SampleSize keys per tick,
\* also when the keyspace holds more than SampleSize keys.
C18_ActiveExpiryProgress ==
    (<<"k">> \in DOMAIN data /\ Expired(<<"k">>))
    ~> (<<"k">> \notin DOMAIN data \/ ~Expired(<<"k">>))

\* the entry of k, inserted with a TTL into a keyspace that held SampleSize
\* other entries, is gone after its deadline and the other entries are there
C18_Witness ==
    /\ Loaded = SampleSize
    /\ CmdName(last.cmd) = SET
    /\ last.cmd[2] = Bulk(<<"k">>)
    /\ last.result = SimpleString(OK)
    /\ written[<<"k">>].expiry.t = "Some"
    /\ now > written[<<"k">>].expiry.v
    /\ <<"k">> \notin DOMAIN data

\* ------------------------------------------------------------------------
\* Publish and registration
\* ------------------------------------------------------------------------

\* the connections whose queue takes a message in this step
Recipients == {s \in Conns : Len(queue'[s]) > Len(queue[s])}

\* C19: publish sees an atomic snapshot of the subscriber set.  PUBLISH ch m
\* enqueues m to the subscribers that are on the list of ch when the publish
\* holds the lock and to no other connection: every one of them that takes
\* the message gets it, whether or not its confirmation frame has been
\* written, and a connection that registers afterwards starts with an empty
\* queue and never gets m.
C19_PublishSnapshot ==
    /\ [][\A ch \in Channels, m \in Messages :
             PublishStep(ch, m) =>
                /\ Recipients \subseteq Subscribers(ch)
                /\ \A s \in Subscribers(ch) :
                      try_send(s) => queue'[s] = Append(queue[s], m)
                /\ \A s \in Conns \ Subscribers(ch) : queue'[s] = queue[s]
        ]_vars
    /\ [][\A s \in FrameConns :
             (pc[s] = "reqresp" /\ pc'[s] = "sub_confirm")
             => (queue'[s] = <<>> /\ enq'[s] = <<>>)
        ]_vars
    /\ [](\A s \in FrameConns : pc[s] = "reqresp" => enq[s] = <<>>)

\* c2, registered on a with its confirmation not yet written, holds the
\* message of a publish, and c3, which registered on a after that publish,
\* holds nothing
C19_Witness ==
    /\ pc["c2"] = "sub_confirm"
    /\ queue["c2"] = <<<<"m">>>>
    /\ npub = 1
    /\ last.cmd = <<Bulk(SUBSCRIBE), Bulk(<<"a">>)>>
    /\ chan["c3"] = Some(<<"a">>)
    /\ rx["c3"] = "open"
    /\ enq["c3"] = <<>>

\* ------------------------------------------------------------------------
\* The stream of a subscriber
\* ------------------------------------------------------------------------

\* the stream a subscriber of ch owes: the confirmation, then one message
\* frame for each message enqueued to it, in the order of the enqueueing
SubscriberStream(ch, msgs) ==
    <<ConfirmFrame(ch)>> \o [i \in 1..Len(msgs) |-> MessageFrame(ch, msgs[i])]

\* C20: subscriber stream order.  The first frame a subscriber writes is the
\* confirmation [subscribe, ch, 1] and every later frame a [message, ch, m]
\* frame; the message frames follow the order in which the publishes were
\* enqueued, each enqueued message is written at most once, and a message
\* enqueued before the confirmation is written after it.
C20_SubscriberStream ==
    /\ [](\A s \in FrameConns :
             Subscribed(s) =>
                IsPrefix(out[s], SubscriberStream(chan[s].v, enq[s])))
    /\ [](\A s \in FrameConns : pc[s] = "sub_confirm" => out[s] = <<>>)
    /\ [][\A s \in FrameConns :
             out'[s] # out[s] =>
                /\ Len(out'[s]) = Len(out[s]) + 1
                /\ pc[s] = "sub_loop" => queue'[s] = Tail(queue[s])
        ]_vars

\* a subscriber of a has written the confirmation and then the two messages
\* enqueued to it, in their order
C20_Witness ==
    /\ chan["c2"] = Some(<<"a">>)
    /\ enq["c2"] = <<<<"n">>, <<"m">>>>
    /\ queue["c2"] = <<>>
    /\ out["c2"] = <<ConfirmFrame(<<"a">>), MessageFrame(<<"a">>, <<"n">>),
                     MessageFrame(<<"a">>, <<"m">>)>>

\* ------------------------------------------------------------------------
\* The end of an evicted subscriber
\* ------------------------------------------------------------------------

\* the task of a subscriber takes its next step: a write completes, with
\* success or with an error, or recv() returns None
SubscriberStep(c) ==
    \/ \E wok \in BOOLEAN : SubConfirm(c, wok)
    \/ \E wok \in BOOLEAN : SubMessage(c, wok)
    \/ SubClosed(c)

\* the scheduler runs the task of every subscriber
FairSpecSubscribers ==
    SpecChannels /\ \A c \in FrameConns : WF_vars(SubscriberStep(c))

\* the sender of a live subscriber has been taken off the list of its channel
Evicted(s) == Subscribed(s) /\ rx[s] = "open" /\ ~SenderHeld(s)

\* C21: an evicted subscriber drains and ends.  A PUBLISH takes a live
\* subscriber off the list only when its queue is full, and does not enqueue
\* its message to it; from then on nothing is enqueued to that subscriber,
\* it writes the messages of its queue in order, one per step, and once the
\* queue is empty it ends, having written every message enqueued to it; in
\* every fair behaviour it ends.
C21_EvictedDrains ==
    /\ [][\A s \in FrameConns :
             rx[s] = "open" =>
                IF SenderHeld(s)
                THEN ~SenderHeld(s)'
                     => (Full(s) /\ queue'[s] = queue[s] /\ enq'[s] = enq[s])
                ELSE Subscribed(s) =>
                        /\ enq'[s] = enq[s]
                        /\ ~SenderHeld(s)'
                        /\ queue'[s] # queue[s] =>
                              /\ queue'[s] = Tail(queue[s])
                              /\ pc'[s] = "sub_loop" =>
                                    out'[s] = Append(out[s],
                                                     MessageFrame(chan[s].v,
                                                                  Head(queue[s])))
                        /\ (pc'[s] = "closed" /\ SubClosed(s))
                           => out[s] = SubscriberStream(chan[s].v, enq[s])
        ]_vars
    /\ \A s \in FrameConns : Evicted(s) ~> pc[s] = "closed"

\* a subscriber of a, evicted on a full queue, has written the confirmation
\* and the messages of its queue and has ended, and two publishes have run
\* that it never got
C21_Witness ==
    /\ pc["c2"] = "closed"
    /\ rx["c2"] = "dropped"
    /\ ~SenderHeld("c2")
    /\ Len(enq["c2"]) = QueueCapacity
    /\ queue["c2"] = <<>>
    /\ out["c2"] = SubscriberStream(<<"a">>, enq["c2"])
    /\ npub = QueueCapacity + 2
    /\ last.cmd[2] = Bulk(<<"a">>)

====
